---- MODULE Spec2Model ----
(***************************************************************************)
(* State-machine model of seo_tracker.py: the four SQLite tables, the      *)
(* import path (clean_and_prepare_df, save_data, load_data), the notes and *)
(* mapping inserts, aggregate_metrics, and one action per Streamlit run    *)
(* of main().                                                              *)
(*                                                                         *)
(* Text is a sequence of one-character strings, so that stripping,         *)
(* "%"-removal, numeric parsing and lexicographic ordering are computed    *)
(* as pandas / SQLite compute them.  Numbers are fixed-point: a REAL is    *)
(* held in hundredths (Scale), an INTEGER column in units.                 *)
(***************************************************************************)
EXTENDS Integers, Sequences, FiniteSets, TLC

VARIABLES
    queries,            \* table queries, in rowid order
    pages,              \* table pages
    notes,              \* table notes
    keyword_page_map,   \* table keyword_page_map
    now,                \* the day datetime.now() last gave, counted from the first run
    uploaded,           \* the CSV and month label the last run saved, if any
    widgets,            \* the values of the selection widgets after the last run
    message,            \* st.success / st.error / st.warning of the last run
    notes_view,         \* the notes block the last run rendered
    comp_view           \* the comparison block the last run rendered

vars == <<queries, pages, notes, keyword_page_map, now, uploaded, widgets, message,
          notes_view, comp_view>>

(***************************************************************************)
(* Bounds of the model.                                                    *)
(***************************************************************************)
\* rows of one uploaded CSV
MaxFileRows == 2
\* rows held by all four tables together
MaxStore == 3
\* days the wall clock may advance
MaxDay == 1

(***************************************************************************)
(* Fixed-point scale: round(x, 2) keeps hundredths.                        *)
(***************************************************************************)
Scale == 100

(***************************************************************************)
(* Text.                                                                   *)
(***************************************************************************)
Digits == <<"0", "1", "2", "3", "4", "5", "6", "7", "8", "9">>

IsDigit(c) == \E i \in DOMAIN Digits : Digits[i] = c

DigitVal(c) == (CHOOSE i \in DOMAIN Digits : Digits[i] = c) - 1

\* code point order of the characters the model uses (ASCII)
Ascii == <<" ", "%", ",", "-", ".", "/",
           "0", "1", "2", "3", "4", "5", "6", "7", "8", "9",
           "A", "C", "I", "J", "K", "N", "P", "Q", "R", "T", "U",
           "a", "b", "c", "d", "e", "g", "h", "i", "k", "l", "m", "n", "o",
           "p", "q", "r", "s", "t", "u", "w", "y">>

Ord(c) == CHOOSE i \in DOMAIN Ascii : Ascii[i] = c

\* Python / SQLite BINARY string comparison: s < t
RECURSIVE StrLess(_, _)
StrLess(s, t) ==
    IF t = <<>> THEN FALSE
    ELSE IF s = <<>> THEN TRUE
    ELSE IF Head(s) # Head(t) THEN Ord(Head(s)) < Ord(Head(t))
    ELSE StrLess(Tail(s), Tail(t))

\* str.strip(): leading and trailing whitespace removed
RECURSIVE LStrip(_)
LStrip(s) == IF s # <<>> /\ Head(s) = " " THEN LStrip(Tail(s)) ELSE s

RECURSIVE RStrip(_)
RStrip(s) ==
    IF s # <<>> /\ s[Len(s)] = " " THEN RStrip(SubSeq(s, 1, Len(s) - 1)) ELSE s

Strip(s) == RStrip(LStrip(s))

\* str.replace("%", "", regex=False)
RemovePercent(s) == SelectSeq(s, LAMBDA c : c # "%")

Range(s) == {s[i] : i \in DOMAIN s}

(***************************************************************************)
(* Cells: a text, a number, or NaN / None / NULL.                          *)
(***************************************************************************)
Str(s) == [t |-> "str", s |-> s, v |-> 0]

Num(n) == [t |-> "num", s |-> <<>>, v |-> n]

NaN == [t |-> "nan", s |-> <<>>, v |-> 0]

IsNaN(c) == c.t = "nan"

(***************************************************************************)
(* pd.to_numeric(..., errors="coerce") on one text: digits with at most    *)
(* one decimal point parse to the number (in hundredths); any other text   *)
(* (a thousands separator, a percent sign, letters) coerces to NaN.        *)
(***************************************************************************)
RECURSIVE DigitsValue(_)
DigitsValue(s) ==
    IF s = <<>> THEN 0
    ELSE DigitsValue(SubSeq(s, 1, Len(s) - 1)) * 10 + DigitVal(s[Len(s)])

ParseNumber(s) ==
    LET dots == {i \in DOMAIN s : s[i] = "."}
        wellformed == /\ \A i \in DOMAIN s : IsDigit(s[i]) \/ s[i] = "."
                      /\ Cardinality(dots) <= 1
                      /\ \E i \in DOMAIN s : IsDigit(s[i])
        dot == IF dots = {} THEN Len(s) + 1 ELSE CHOOSE i \in dots : TRUE
        whole == SubSeq(s, 1, dot - 1)
        frac == SubSeq(s, dot + 1, Len(s))
        frac2 == SubSeq(frac \o <<"0", "0">>, 1, 2)
    IN  IF wellformed
        THEN Num(DigitsValue(whole) * Scale + DigitsValue(frac2))
        ELSE NaN

to_numeric(c) == IF c.t = "str" THEN ParseNumber(c.s) ELSE c

\* Series.astype(str): NaN becomes the text "nan"
astype_str(c) == IF IsNaN(c) THEN Str(<<"n", "a", "n">>) ELSE c

\* .fillna(0).astype(int): NaN becomes 0, a float is truncated to units
fillna0_astype_int(c) == IF IsNaN(c) THEN Num(0) ELSE Num(c.v \div Scale)

(***************************************************************************)
(* Column names.                                                           *)
(***************************************************************************)
KEYWORD == <<"k", "e", "y", "w", "o", "r", "d">>
URL == <<"u", "r", "l">>
MONTH == <<"m", "o", "n", "t", "h">>
CLICKS == <<"C", "l", "i", "c", "k", "s">>
IMPRESSIONS == <<"I", "m", "p", "r", "e", "s", "s", "i", "o", "n", "s">>
CTR == <<"C", "T", "R">>
POSITION == <<"P", "o", "s", "i", "t", "i", "o", "n">>
TOP_QUERIES == <<"T", "o", "p", " ", "q", "u", "e", "r", "i", "e", "s">>
TOP_PAGES == <<"T", "o", "p", " ", "p", "a", "g", "e", "s">>

\* CREATE TABLE queries / pages
QueriesColumns == <<KEYWORD, MONTH, CLICKS, IMPRESSIONS, CTR, POSITION>>

PagesColumns == <<URL, MONTH, CLICKS, IMPRESSIONS, CTR, POSITION>>

TableColumns(table) == IF table = "queries" THEN QueriesColumns ELSE PagesColumns

(***************************************************************************)
(* DataFrame: [columns : Seq(text), data : Seq(row)], a row being a        *)
(* sequence of cells aligned with columns.                                 *)
(***************************************************************************)
HasColumn(df, name) == \E j \in DOMAIN df.columns : df.columns[j] = name

ColumnIndex(df, name) == CHOOSE j \in DOMAIN df.columns : df.columns[j] = name

\* the three column conversions of clean_and_prepare_df and save_data
Convert(how, c) ==
    CASE how = "percent" -> to_numeric(Str(RemovePercent(astype_str(c).s)))
      [] how = "int" -> fillna0_astype_int(to_numeric(c))
      [] how = "numeric" -> to_numeric(c)

\* df[name] = <conversion of df[name]>
MapColumn(df, name, how) ==
    [df EXCEPT !.data =
        [i \in DOMAIN df.data |->
            [j \in DOMAIN df.columns |->
                IF df.columns[j] = name THEN Convert(how, df.data[i][j])
                ELSE df.data[i][j]]]]

\* df[name] = value: overwrites the column, or appends it
SetColumn(df, name, value) ==
    IF HasColumn(df, name)
    THEN [df EXCEPT !.data =
             [i \in DOMAIN df.data |->
                 [j \in DOMAIN df.columns |->
                     IF df.columns[j] = name THEN value ELSE df.data[i][j]]]]
    ELSE [columns |-> Append(df.columns, name),
          data |-> [i \in DOMAIN df.data |-> Append(df.data[i], value)]]

\* df.rename(columns={old: new})
rename(df, old, new) ==
    [df EXCEPT !.columns =
        [j \in DOMAIN df.columns |-> IF df.columns[j] = old THEN new ELSE df.columns[j]]]

clean_and_prepare_df(df) ==
    LET stripped == [df EXCEPT !.columns = [j \in DOMAIN df.columns |-> Strip(df.columns[j])]]
    IN  IF HasColumn(stripped, CTR)
        THEN MapColumn(stripped, CTR, "percent")
        ELSE stripped

\* the loop of save_data over Clicks, Impressions, CTR, Position
RECURSIVE EnsureNumeric(_, _)
EnsureNumeric(df, cols) ==
    IF cols = <<>> THEN df
    ELSE LET col == Head(cols)
             next == IF ~HasColumn(df, col) THEN df
                     ELSE IF col \in {CLICKS, IMPRESSIONS}
                          THEN MapColumn(df, col, "int")
                          ELSE MapColumn(df, col, "numeric")
         IN  EnsureNumeric(next, Tail(cols))

\* variant: a month column of the file is kept instead of overwritten
PreparedFrame_keeps_month(df, month) ==
    LET cleaned == clean_and_prepare_df(df)
    IN  EnsureNumeric(IF HasColumn(cleaned, MONTH) THEN cleaned
                      ELSE SetColumn(cleaned, MONTH, Str(month)),
                      <<CLICKS, IMPRESSIONS, CTR, POSITION>>)

\* the frame save_data hands to to_sql
PreparedFrame(df, month) ==
    EnsureNumeric(SetColumn(clean_and_prepare_df(df), MONTH, Str(month)),
                  <<CLICKS, IMPRESSIONS, CTR, POSITION>>)

\* a stored value: NaN / None is written as NULL
Null == [t |-> "null", s |-> <<>>, v |-> 0]

ToSqlValue(c) == IF IsNaN(c) THEN Null ELSE c

FromSqlValue(c) == IF c.t = "null" THEN NaN ELSE c

\* INSERT fails when the frame has a column the table lacks
ToSqlAccepts(df, table) == Range(df.columns) \subseteq Range(TableColumns(table))

\* the rows to_sql(if_exists="append") inserts; absent columns are NULL
ToSqlRows(df, table) ==
    [i \in DOMAIN df.data |->
        [c \in Range(TableColumns(table)) |->
            IF HasColumn(df, c) THEN ToSqlValue(df.data[i][ColumnIndex(df, c)]) ELSE Null]]

\* variant: to_sql(if_exists="replace"), the table holds the last import only
save_data_replace(rows, df, table, month) ==
    LET prepared == PreparedFrame(df, month)
    IN  IF ToSqlAccepts(prepared, table)
        THEN ToSqlRows(prepared, table)
        ELSE rows

\* save_data: the table after the call (unchanged when to_sql raises)
save_data(rows, df, table, month) ==
    LET prepared == PreparedFrame(df, month)
    IN  IF ToSqlAccepts(prepared, table)
        THEN rows \o ToSqlRows(prepared, table)
        ELSE rows

save_data_raises(df, table, month) == ~ToSqlAccepts(PreparedFrame(df, month), table)

\* load_data: SELECT * FROM table, NULL read back as NaN / None
load_data(rows) ==
    [i \in DOMAIN rows |-> [c \in DOMAIN rows[i] |-> FromSqlValue(rows[i][c])]]

(***************************************************************************)
(* Notes and mappings.                                                     *)
(***************************************************************************)
\* datetime.now(): a calendar date, `now` days after the first run
StartDate == [y |-> 2025, m |-> 9, d |-> 30]

DaysInMonth(m) == IF m = 2 THEN 28 ELSE IF m \in {4, 6, 9, 11} THEN 30 ELSE 31

NextDate(date) ==
    IF date.d < DaysInMonth(date.m) THEN [date EXCEPT !.d = @ + 1]
    ELSE IF date.m < 12 THEN [y |-> date.y, m |-> date.m + 1, d |-> 1]
    ELSE [y |-> date.y + 1, m |-> 1, d |-> 1]

RECURSIVE DateAfter(_)
DateAfter(n) == IF n = 0 THEN StartDate ELSE NextDate(DateAfter(n - 1))

Digit(n) == Digits[n + 1]

\* strftime("%Y-%m-%d"): zero-padded fields
strftime(date) ==
    <<Digit(date.y \div 1000), Digit((date.y \div 100) % 10),
      Digit((date.y \div 10) % 10), Digit(date.y % 10), "-",
      Digit(date.m \div 10), Digit(date.m % 10), "-",
      Digit(date.d \div 10), Digit(date.d % 10)>>

\* INSERT INTO notes (keyword, date, note)
add_note(rows, keyword, note, date) ==
    Append(rows, [keyword |-> keyword, date |-> strftime(date), note |-> note])

\* the row orders "ORDER BY date DESC" / sort_values("date", ascending=False)
\* may produce: date-descending, rows of equal date in an unspecified order
DateDescOrders(rows, ids) ==
    LET n == Cardinality(ids)
    IN  {p \in [1..n -> ids] :
            /\ \A i, j \in 1..n : i # j => p[i] # p[j]
            /\ \A i, j \in 1..n : i < j => ~StrLess(rows[p[i]].date, rows[p[j]].date)}

\* get_notes: SELECT * FROM notes WHERE keyword = ? ORDER BY date DESC,
\* as the rowids of the selected rows in result order
get_notes(rows, keyword) ==
    DateDescOrders(rows, {i \in DOMAIN rows : rows[i].keyword = keyword})

\* INSERT INTO keyword_page_map (keyword, url)
add_mapping(rows, keyword, url) ==
    Append(rows, [keyword |-> ToSqlValue(keyword), url |-> ToSqlValue(url)])

\* SELECT url FROM keyword_page_map WHERE keyword = ?
get_pages_for_keyword(rows, keyword) ==
    SelectSeq(rows, LAMBDA r : r.keyword = Str(keyword))

\* SELECT keyword FROM keyword_page_map WHERE url = ?
get_keywords_for_page(rows, url) ==
    SelectSeq(rows, LAMBDA r : r.url = Str(url))

(***************************************************************************)
(* Comparison helpers.                                                     *)
(***************************************************************************)
\* variant: truncation instead of rounding
RoundDiv_truncates(n, d) == n \div d

\* round to the nearest integer multiple, ties to even (Python round)
RoundDiv(n, d) ==
    LET q == n \div d
        r == n % d
    IN  IF 2 * r < d THEN q
        ELSE IF 2 * r > d THEN q + 1
        ELSE IF q % 2 = 0 THEN q ELSE q + 1

\* Series.sum() / Series.dropna(): NaN is skipped
RECURSIVE SumColumn(_, _)
SumColumn(rows, col) ==
    IF rows = <<>> THEN 0
    ELSE (IF IsNaN(Head(rows)[col]) THEN 0 ELSE Head(rows)[col].v) + SumColumn(Tail(rows), col)

None == [t |-> "none"]

\* Series == value: a missing value equals nothing, not even None
Equals(c, value) == c.t = "str" /\ value.t = "str" /\ c.s = value.s

\* variant: an empty subset aggregates to zeros instead of None
aggregate_metrics_zeros(df, filter_col, filter_val, month) ==
    LET subset == SelectSeq(df, LAMBDA r : Equals(r[filter_col], filter_val)
                                           /\ Equals(r[MONTH], Str(month)))
        clicks == SumColumn(subset, CLICKS)
        impressions == SumColumn(subset, IMPRESSIONS)
        position == SelectSeq(subset, LAMBDA r : ~IsNaN(r[POSITION]))
    IN  [t |-> "metrics",
         Clicks |-> Num(clicks),
         Impressions |-> Num(impressions),
         CTR |-> IF impressions > 0
                 THEN Num(RoundDiv(clicks * 100 * Scale, impressions))
                 ELSE NaN,
         Position |-> IF position # <<>>
                      THEN Num(RoundDiv(SumColumn(position, POSITION), Len(position)))
                      ELSE NaN]

aggregate_metrics(df, filter_col, filter_val, month) ==
    LET subset == SelectSeq(df, LAMBDA r : Equals(r[filter_col], filter_val)
                                           /\ Equals(r[MONTH], Str(month)))
        clicks == SumColumn(subset, CLICKS)
        impressions == SumColumn(subset, IMPRESSIONS)
        position == SelectSeq(subset, LAMBDA r : ~IsNaN(r[POSITION]))
    IN  IF subset = <<>> THEN None
        ELSE [t |-> "metrics",
              Clicks |-> Num(clicks),
              Impressions |-> Num(impressions),
              CTR |-> IF impressions > 0
                      THEN Num(RoundDiv(clicks * 100 * Scale, impressions))
                      ELSE NaN,
              Position |-> IF position # <<>>
                           THEN Num(RoundDiv(SumColumn(position, POSITION), Len(position)))
                           ELSE NaN]

\* variant: an undefined value counts as zero
Change_fillna(a, b) ==
    [Clicks |-> Num(b.Clicks.v - a.Clicks.v),
     Impressions |-> Num(b.Impressions.v - a.Impressions.v),
     CTR |-> Num(b.CTR.v - a.CTR.v),
     Position |-> Num(b.Position.v - a.Position.v)]

\* the "Change" column of the comparison table
Change(a, b) ==
    [Clicks |-> Num(b.Clicks.v - a.Clicks.v),
     Impressions |-> Num(b.Impressions.v - a.Impressions.v),
     CTR |-> IF ~(IsNaN(a.CTR) \/ IsNaN(b.CTR))
             THEN Num(RoundDiv(b.CTR.v - a.CTR.v, 1)) ELSE NaN,
     Position |-> IF ~(IsNaN(a.Position) \/ IsNaN(b.Position))
                  THEN Num(RoundDiv(b.Position.v - a.Position.v, 1)) ELSE NaN]

(***************************************************************************)
(* What one run of main() renders.  A widget keeps the value the user gave *)
(* it while that value is among its options; a widget that is new, or was  *)
(* not rendered by the previous run, takes its default index.              *)
(***************************************************************************)
\* df[col].unique()
Unique(df, col) == {df[i][col] : i \in DOMAIN df}

\* df[col].dropna().unique()
UniqueNotNa(df, col) == {c \in Unique(df, col) : ~IsNaN(c)}

\* sorted(...) of texts
Sorted(S) ==
    CHOOSE seq \in [1..Cardinality(S) -> S] :
        /\ \A i, j \in DOMAIN seq : i # j => seq[i] # seq[j]
        /\ \A i, j \in DOMAIN seq : i < j => ~StrLess(seq[j].s, seq[i].s)

\* sorted(df[col].unique()) raises TypeError when None meets a str
SortedRaises(df, col) ==
    (\E c \in Unique(df, col) : IsNaN(c)) /\ (\E c \in Unique(df, col) : ~IsNaN(c))

Unset == [t |-> "unset", s |-> <<>>, v |-> 0]

NoWidgets == [keyword |-> Unset, mode |-> "Keyword", entity |-> Unset, m1 |-> Unset, m2 |-> Unset]

\* st.selectbox(label, options, index): None when there are no options
selectbox(current, options, index) ==
    IF options = <<>> THEN NaN
    ELSE IF current \in Range(options) THEN current
    ELSE options[index]

Truthy(c) == c.t = "str" /\ c.s # <<>>

\* notes_df.sort_values("date", ascending=False) on the rowids of notes_df
sort_values_date(rows, ids) == DateDescOrders(rows, Range(ids))

\* Keyword Explorer: the selected keyword
KeywordWidget(w, queries_df) ==
    IF queries_df = <<>> THEN Unset
    ELSE selectbox(w.keyword, Sorted(UniqueNotNa(queries_df, KEYWORD)), 1)

\* Keyword Explorer: the notes block of the selected keyword
NotesPanels(keyword, queries_df, note_rows) ==
    IF queries_df = <<>> THEN {[state |-> "no_queries"]}
    ELSE IF ~Truthy(keyword) THEN {[state |-> "no_keyword"]}
    ELSE IF get_notes(note_rows, keyword.s) = {<<>>}
    THEN {[state |-> "no_notes", keyword |-> keyword.s]}
    ELSE {[state |-> "notes", keyword |-> keyword.s,
           latest_note |-> shown[1], history |-> shown] :
              shown \in UNION {sort_values_date(note_rows, notes_df) :
                                 notes_df \in get_notes(note_rows, keyword.s)}}

\* Mapping section: the two sorted() calls run when both tables have rows
MappingRaises(queries_df, pages_df) ==
    /\ queries_df # <<>>
    /\ pages_df # <<>>
    /\ SortedRaises(queries_df, KEYWORD) \/ SortedRaises(pages_df, URL)

\* Comparison tool: the widgets of the chosen mode
CompareWidgets(w, df, filter_col) ==
    IF df = <<>> \/ SortedRaises(df, filter_col)
    THEN [entity |-> Unset, m1 |-> Unset, m2 |-> Unset]
    ELSE LET options == IF Unique(df, filter_col) = {NaN} THEN <<NaN>>
                        ELSE Sorted(Unique(df, filter_col))
             months == Sorted(UniqueNotNa(df, MONTH))
         IN  IF Len(months) < 2
             THEN [entity |-> selectbox(w.entity, options, 1), m1 |-> Unset, m2 |-> Unset]
             ELSE [entity |-> selectbox(w.entity, options, 1),
                   m1 |-> selectbox(w.m1, months, 1),
                   m2 |-> selectbox(w.m2, months, 2)]

\* Comparison tool: what is shown for those widgets
ComparePanel(mode, sel, df, filter_col) ==
    IF df = <<>> THEN [kind |-> "upload_first", mode |-> mode]
    ELSE IF SortedRaises(df, filter_col) THEN [kind |-> "exception", mode |-> mode]
    ELSE IF sel.m1 = Unset THEN [kind |-> "need_two_months", mode |-> mode]
    ELSE IF sel.m1 = sel.m2 THEN [kind |-> "same_month", mode |-> mode]
    ELSE LET a == aggregate_metrics(df, filter_col, sel.entity, sel.m1.s)
             b == aggregate_metrics(df, filter_col, sel.entity, sel.m2.s)
             chosen == [mode |-> mode, entity |-> sel.entity, m1 |-> sel.m1.s, m2 |-> sel.m2.s]
         IN  IF a = None \/ b = None
             THEN [kind |-> "no_data", chosen |-> chosen, a |-> a, b |-> b]
             ELSE [kind |-> "table", chosen |-> chosen, a |-> a, b |-> b,
                   change |-> Change(a, b)]

Hidden == [kind |-> "hidden"]

\* what the rest of main() shows once the tables are loaded:
\* the widgets after the run, the notes block and the comparison block
Render(w, q, p, n) ==
    LET queries_df == load_data(q)
        pages_df == load_data(p)
        keyword == KeywordWidget(w, queries_df)
        df == IF w.mode = "Keyword" THEN queries_df ELSE pages_df
        filter_col == IF w.mode = "Keyword" THEN KEYWORD ELSE URL
        sel == CompareWidgets(w, df, filter_col)
    IN  IF MappingRaises(queries_df, pages_df)
        THEN {[widgets |-> [NoWidgets EXCEPT !.keyword = keyword], notes |-> nv, comp |-> Hidden] :
                 nv \in NotesPanels(keyword, queries_df, n)}
        ELSE {[widgets |-> [keyword |-> keyword, mode |-> w.mode, entity |-> sel.entity,
                            m1 |-> sel.m1, m2 |-> sel.m2],
               notes |-> nv,
               comp |-> ComparePanel(w.mode, sel, df, filter_col)] :
                 nv \in NotesPanels(keyword, queries_df, n)}

(***************************************************************************)
(* Inputs: the CSV files, month labels and note texts a user supplies.     *)
(***************************************************************************)
SHOES == <<"s", "h", "o", "e", "s">>
BLANK == <<" ">>
PAGE_A == <<"/", "a">>
PAGE_B == <<"/", "b">>
JUL == <<"J", "u", "l">>
AUG == <<"A", "u", "g">>
DEVICE == <<"D", "e", "v", "i", "c", "e">>
PADDED_CTR == <<"C", "T", "R", " ">>

Months == {JUL, AUG}

\* one CSV field as read by pd.read_csv: an empty field is NaN
Field(text) == IF text = <<>> THEN NaN ELSE Str(text)

\* rows of a queries export: Top queries, Clicks, Impressions, CTR, Position
QueryRows ==
    {<<Field(SHOES), Field(<<"1", "0", "0">>), Field(<<"1", "0", "0", "0">>),
       Field(<<"1", "0", "%">>), Field(<<"4", ".", "5">>)>>,
     <<Field(SHOES), Field(<<"1", "5", "0">>), Field(<<"7">>),
       Field(<<"2", ".", "4">>), Field(<<"2">>)>>,
     <<Field(BLANK), Field(<<"n", "/", "a">>), Field(<<"0">>), Field(<<>>), Field(<<>>)>>,
     <<Field(<<>>), Field(<<"1">>), Field(<<"3">>), Field(<<"0", ".", "5", "%">>), Field(<<"2">>)>>}

\* rows of a pages export: Top pages, Clicks, Impressions, CTR, Position
PageRows ==
    {<<Field(PAGE_A), Field(<<"7">>), Field(<<"7", "0">>),
       Field(<<"1", "0", "%">>), Field(<<"1">>)>>,
     <<Field(PAGE_B), Field(<<"1", ",", "2", "3", "4">>), Field(<<"5", "0", ",", "0", "0", "0">>),
       Field(<<"1", "2", ".", "5", "%">>), Field(<<"3">>)>>}

SeqsUpTo(S, n) == UNION {[1..k -> S] : k \in 1..n}

Export(header, rows) ==
    [columns |-> <<header, CLICKS, IMPRESSIONS, CTR, POSITION>>, data |-> rows]

SampleQueryRow == CHOOSE r \in QueryRows : r[1] = Field(SHOES) /\ r[5] = Field(<<"2">>)

SamplePageRow == CHOOSE r \in PageRows : r[1] = Field(PAGE_A)

\* headers other exports use for the entity column
OtherHeaders ==
    {<<" ", "T", "o", "p", " ", "q", "u", "e", "r", "i", "e", "s", " ">>,
     <<"t", "o", "p", " ", "q", "u", "e", "r", "i", "e", "s">>,
     <<"K", "e", "y", "w", "o", "r", "d">>,
     <<"U", "R", "L">>,
     <<"N", "a", "m", "e">>}

Uploads ==
    \* Search Console exports
    {Export(TOP_QUERIES, rows) : rows \in SeqsUpTo(QueryRows, MaxFileRows)}
    \cup {Export(TOP_PAGES, rows) : rows \in SeqsUpTo(PageRows, MaxFileRows)}
    \* the same sheet under another entity header
    \cup {Export(h, <<IF \E i \in DOMAIN h : h[i] \in {"q", "Q", "K"}
                      THEN SampleQueryRow ELSE SamplePageRow>>) : h \in OtherHeaders}
    \* a month column of its own, no Position column, a padded header, an extra column
    \cup {[columns |-> <<TOP_QUERIES, MONTH, CLICKS, IMPRESSIONS, CTR, POSITION>>,
           data |-> <<<<SampleQueryRow[1], Field(AUG), SampleQueryRow[2], SampleQueryRow[3],
                        SampleQueryRow[4], SampleQueryRow[5]>>>>],
          [columns |-> <<TOP_QUERIES, CLICKS, IMPRESSIONS, CTR>>,
           data |-> <<SubSeq(SampleQueryRow, 1, 4)>>],
          [columns |-> <<TOP_PAGES, CLICKS, IMPRESSIONS, PADDED_CTR, POSITION>>,
           data |-> <<SamplePageRow>>],
          [columns |-> <<TOP_QUERIES, CLICKS, IMPRESSIONS, CTR, POSITION, DEVICE>>,
           data |-> <<Append(SampleQueryRow, Field(<<"P", "C">>))>>]}

\* st.text_area contents
NoteTexts == {<<" ", "o", "k", " ">>, <<" ">>}

(***************************************************************************)
(* The runs of main().                                                     *)
(***************************************************************************)
StoreSize == Len(queries) + Len(pages) + Len(notes) + Len(keyword_page_map)

NoUpload == [kind |-> "none"]

\* init_db() on a fresh database file, and the first run
Init ==
    /\ queries = <<>>
    /\ pages = <<>>
    /\ notes = <<>>
    /\ keyword_page_map = <<>>
    /\ now = 0
    /\ uploaded = NoUpload
    /\ widgets = NoWidgets
    /\ message = "none"
    /\ notes_view = [state |-> "no_queries"]
    /\ comp_view = [kind |-> "upload_first", mode |-> "Keyword"]

\* the explorers, the mapping section and the comparison tool, over the new tables
RenderRest(w) ==
    \E r \in Render(w, queries', pages', notes') :
        /\ widgets' = r.widgets
        /\ notes_view' = r.notes
        /\ comp_view' = r.comp

\* an uncaught exception ends the run: nothing below it is rendered
RunAborted ==
    /\ message' = "exception"
    /\ widgets' = NoWidgets
    /\ notes_view' = [state |-> "hidden"]
    /\ comp_view' = Hidden

\* variant: a file without "Top pages" is taken for a queries export
target_table_default_queries(df) ==
    IF HasColumn(df, TOP_PAGES) THEN "pages" ELSE "queries"

\* the if / elif / else on the uploaded header: the table the file goes to
target_table(df) ==
    IF HasColumn(df, TOP_QUERIES) THEN "queries"
    ELSE IF HasColumn(df, TOP_PAGES) THEN "pages"
    ELSE "none"

\* the rename(columns={...}) main() applies before save_data
renamed(df, table) ==
    IF table = "queries" THEN rename(df, TOP_QUERIES, KEYWORD) ELSE rename(df, TOP_PAGES, URL)

\* "Save to Database" pressed with a CSV in the uploader
SaveToDatabase(df, month) ==
    /\ StoreSize + Len(df.data) <= MaxStore
    /\ uploaded' = [kind |-> "csv", df |-> df, month |-> month, save_data |-> target_table(df)]
    /\ UNCHANGED <<notes, keyword_page_map, now>>
    /\ IF target_table(df) = "queries"
       THEN /\ queries' = save_data(queries, renamed(df, "queries"), "queries", month)
            /\ pages' = pages
            /\ IF save_data_raises(renamed(df, "queries"), "queries", month)
               THEN RunAborted
               ELSE message' = "Queries saved to DB." /\ RenderRest(widgets)
       ELSE IF target_table(df) = "pages"
       THEN /\ pages' = save_data(pages, renamed(df, "pages"), "pages", month)
            /\ queries' = queries
            /\ IF save_data_raises(renamed(df, "pages"), "pages", month)
               THEN RunAborted
               ELSE message' = "Pages saved to DB." /\ RenderRest(widgets)
       ELSE /\ message' = "CSV must contain 'Top queries' or 'Top pages' column names."
            /\ UNCHANGED <<queries, pages>>
            /\ RenderRest(widgets)

\* a run with no button pressed, after the user set the widgets to w
Rerun(w) ==
    /\ UNCHANGED <<queries, pages, notes, keyword_page_map, now>>
    /\ uploaded' = NoUpload
    /\ message' = "none"
    /\ RenderRest(w)

\* the user picks a keyword in the Keyword Explorer
SelectKeyword(keyword) ==
    /\ widgets.keyword # Unset
    /\ keyword # widgets.keyword
    /\ Rerun([widgets EXCEPT !.keyword = keyword])

\* the user switches the comparison mode: the other mode's widgets are new
SelectMode(mode) ==
    /\ comp_view # Hidden
    /\ mode # widgets.mode
    /\ Rerun([widgets EXCEPT !.mode = mode, !.entity = Unset, !.m1 = Unset, !.m2 = Unset])

\* the user picks the entity to compare
SelectEntity(entity) ==
    /\ widgets.entity # Unset
    /\ entity # widgets.entity
    /\ Rerun([widgets EXCEPT !.entity = entity])

\* the user picks the first or the second month
SelectMonth1(month) ==
    /\ widgets.m1 # Unset
    /\ month # widgets.m1
    /\ Rerun([widgets EXCEPT !.m1 = month])

SelectMonth2(month) ==
    /\ widgets.m2 # Unset
    /\ month # widgets.m2
    /\ Rerun([widgets EXCEPT !.m2 = month])

\* "Save Note" pressed in the Keyword Explorer
SaveNote(note_text, today) ==
    /\ Truthy(widgets.keyword)
    /\ StoreSize < MaxStore
    /\ today >= now
    /\ uploaded' = NoUpload
    /\ UNCHANGED <<queries, pages, keyword_page_map>>
    /\ IF Strip(note_text) # <<>>
       THEN /\ notes' = add_note(notes, widgets.keyword.s, Strip(note_text), DateAfter(today))
            /\ now' = today
            /\ message' = "none"
       ELSE /\ notes' = notes
            /\ now' = now
            /\ message' = "Note cannot be empty."
    /\ RenderRest(widgets)

\* the add_mapping loop over a multiselect
RECURSIVE AddMappings(_, _, _)
AddMappings(rows, pairs, k) ==
    IF k > Len(pairs) THEN rows
    ELSE AddMappings(add_mapping(rows, pairs[k][1], pairs[k][2]), pairs, k + 1)

\* multiselect results: the options picked, without repetition
Selections(options) ==
    {sel \in UNION {[1..k -> options] : k \in 0..Cardinality(options)} :
        \A i, j \in DOMAIN sel : i # j => sel[i] # sel[j]}

MappingShown ==
    /\ queries # <<>>
    /\ pages # <<>>
    /\ ~MappingRaises(load_data(queries), load_data(pages))

\* "Save Mapping from Keyword -> Pages" pressed
SaveMappingFromKeyword(kw_map, pages_mult) ==
    /\ MappingShown
    /\ StoreSize + Len(pages_mult) <= MaxStore
    /\ uploaded' = NoUpload
    /\ UNCHANGED <<queries, pages, notes, now>>
    /\ IF pages_mult # <<>> /\ Truthy(kw_map)
       THEN /\ keyword_page_map' =
                  AddMappings(keyword_page_map,
                              [i \in DOMAIN pages_mult |-> <<kw_map, pages_mult[i]>>], 1)
            /\ message' = "none"
       ELSE /\ keyword_page_map' = keyword_page_map
            /\ message' = "Select a keyword and at least one page."
    /\ RenderRest(widgets)

\* "Save Mapping from Page -> Keywords" pressed
SaveMappingFromPage(pg_map, keywords_mult) ==
    /\ MappingShown
    /\ StoreSize + Len(keywords_mult) <= MaxStore
    /\ uploaded' = NoUpload
    /\ UNCHANGED <<queries, pages, notes, now>>
    /\ IF keywords_mult # <<>> /\ Truthy(pg_map)
       THEN /\ keyword_page_map' =
                  AddMappings(keyword_page_map,
                              [i \in DOMAIN keywords_mult |-> <<keywords_mult[i], pg_map>>], 1)
            /\ message' = "none"
       ELSE /\ keyword_page_map' = keyword_page_map
            /\ message' = "Select a page and at least one keyword."
    /\ RenderRest(widgets)

\* the options the selection widgets offer in the current state
KeywordOptions == UniqueNotNa(load_data(queries), KEYWORD)

EntityOptions ==
    IF widgets.mode = "Keyword" THEN Unique(load_data(queries), KEYWORD)
    ELSE Unique(load_data(pages), URL)

MonthOptions ==
    IF widgets.mode = "Keyword" THEN UniqueNotNa(load_data(queries), MONTH)
    ELSE UniqueNotNa(load_data(pages), MONTH)

Next ==
    \/ \E df \in Uploads, month \in Months : SaveToDatabase(df, month)
    \/ \E keyword \in KeywordOptions : SelectKeyword(keyword)
    \/ \E mode \in {"Keyword", "Page"} : SelectMode(mode)
    \/ \E entity \in EntityOptions : SelectEntity(entity)
    \/ \E month \in MonthOptions : SelectMonth1(month)
    \/ \E month \in MonthOptions : SelectMonth2(month)
    \/ \E note_text \in NoteTexts, today \in 0..MaxDay : SaveNote(note_text, today)
    \/ \E kw_map \in Unique(load_data(queries), KEYWORD),
          pages_mult \in Selections(Unique(load_data(pages), URL)) :
            SaveMappingFromKeyword(kw_map, pages_mult)
    \/ \E pg_map \in Unique(load_data(pages), URL),
          keywords_mult \in Selections(Unique(load_data(queries), KEYWORD)) :
            SaveMappingFromPage(pg_map, keywords_mult)

Spec == Init /\ [][Next]_vars

(***************************************************************************)
(* Vocabulary of the properties.                                           *)
(***************************************************************************)
IsPrefix(old, new) == Len(old) <= Len(new) /\ SubSeq(new, 1, Len(old)) = old

\* the run just made saved a CSV (save_data returned)
Saved(up, msg) == up.kind = "csv" /\ msg \in {"Queries saved to DB.", "Pages saved to DB."}

\* the numbers the sample numerals denote, in hundredths
Reading(text) ==
    CASE text = <<"0">> -> 0
      [] text = <<"1">> -> 100
      [] text = <<"2">> -> 200
      [] text = <<"3">> -> 300
      [] text = <<"7">> -> 700
      [] text = <<"7", "0">> -> 7000
      [] text = <<"1", "0", "0">> -> 10000
      [] text = <<"1", "5", "0">> -> 15000
      [] text = <<"1", "0", "0", "0">> -> 100000
      [] text = <<"2", ".", "4">> -> 240
      [] text = <<"4", ".", "5">> -> 450
      [] text = <<"1", "0", "%">> -> 1000
      [] text = <<"0", ".", "5", "%">> -> 50
      [] text = <<"1", "2", ".", "5", "%">> -> 1250
      [] text = <<"1", ",", "2", "3", "4">> -> 123400
      [] text = <<"5", "0", ",", "0", "0", "0">> -> 5000000

IsNumeral(text) ==
    /\ text # <<>>
    /\ \A i \in DOMAIN text : IsDigit(text[i]) \/ (text[i] = "." /\ 1 < i /\ i < Len(text))
    /\ Cardinality({i \in DOMAIN text : text[i] = "."}) <= 1

IsWholeNumeral(text) == text # <<>> /\ \A i \in DOMAIN text : IsDigit(text[i])

\* a numeral, or a numeral followed by a percent sign
IsRate(text) ==
    IsNumeral(text) \/ (Len(text) > 1 /\ text[Len(text)] = "%"
                        /\ IsNumeral(SubSeq(text, 1, Len(text) - 1)))

\* the cell of input row i under the header that trims to name
CellUnder(df, i, name) ==
    df.data[i][CHOOSE j \in DOMAIN df.columns : Strip(df.columns[j]) = name]

EntityHeader(table) == IF table = "queries" THEN TOP_QUERIES ELSE TOP_PAGES

EntityColumn(table) == IF table = "queries" THEN KEYWORD ELSE URL

\* a Search Console export: the entity column and the four metric columns
\* (and at most a month column), every metric cell a well-formed value
WellFormedExport(df, table) ==
    /\ {Strip(df.columns[j]) : j \in DOMAIN df.columns} \ {MONTH}
          = {EntityHeader(table), CLICKS, IMPRESSIONS, CTR, POSITION}
    /\ \A i \in DOMAIN df.data :
          /\ CellUnder(df, i, CLICKS).t = "str" /\ IsWholeNumeral(CellUnder(df, i, CLICKS).s)
          /\ CellUnder(df, i, IMPRESSIONS).t = "str"
          /\ IsWholeNumeral(CellUnder(df, i, IMPRESSIONS).s)
          /\ CellUnder(df, i, CTR).t = "str" /\ IsRate(CellUnder(df, i, CTR).s)
          /\ CellUnder(df, i, POSITION).t = "str" /\ IsNumeral(CellUnder(df, i, POSITION).s)

\* the records an export denotes, tagged with the month label
ExpectedRows(df, table, month) ==
    [i \in DOMAIN df.data |->
        [c \in Range(TableColumns(table)) |->
            IF c = EntityColumn(table) THEN CellUnder(df, i, EntityHeader(table))
            ELSE IF c = MONTH THEN Str(month)
            ELSE IF c \in {CLICKS, IMPRESSIONS} THEN Num(Reading(CellUnder(df, i, c).s) \div Scale)
            ELSE Num(Reading(CellUnder(df, i, c).s))]]

TableOf(name, q, p) == IF name = "queries" THEN q ELSE p

(***************************************************************************)
(* C1.  The store is append-only: every run leaves each row of queries,    *)
(* pages, notes and keyword_page_map in place with its values unchanged,   *)
(* and a saved import adds all its rows after the rows already stored,     *)
(* also when the same file was imported for that month before.             *)
(***************************************************************************)
C1_AppendOnly ==
    [][/\ IsPrefix(queries, queries')
       /\ IsPrefix(pages, pages')
       /\ IsPrefix(notes, notes')
       /\ IsPrefix(keyword_page_map, keyword_page_map')
       /\ Saved(uploaded', message') =>
             Len(queries') + Len(pages')
                = Len(queries) + Len(pages) + Len(uploaded'.df.data)]_vars

\* a one-row file saved twice for the same month: both copies are stored
C1_Witness ==
    /\ Saved(uploaded, message)
    /\ Len(uploaded.df.data) = 1
    /\ Len(queries) = 2
    /\ queries[1] = queries[2]

Group(df, col, entity, month) ==
    {i \in DOMAIN df : /\ df[i][col].t = "str" /\ entity.t = "str" /\ df[i][col].s = entity.s
                       /\ df[i][MONTH].s = month}

\* the rows of a group that hold a value in a column
Present(df, ids, col) == {i \in ids : df[i][col].t = "num"}

RECURSIVE Total(_, _, _)
Total(df, ids, col) ==
    IF ids = {} THEN 0
    ELSE LET i == CHOOSE k \in ids : TRUE
         IN  df[i][col].v + Total(df, ids \ {i}, col)

Abs(x) == IF x < 0 THEN -x ELSE x

\* q is the quotient n / d exactly
IsQuotient(q, n, d) == q * d = n

\* q is n / d rounded to the nearest unit
IsRoundedQuotient(q, n, d) == 2 * Abs(q * d - n) <= d

\* q is n / d, exactly or rounded
Quotient(exact, q, n, d) == IF exact THEN IsQuotient(q, n, d) ELSE IsRoundedQuotient(q, n, d)

\* agg is the aggregate of the group, its CTR and Position being the
\* quotients, exact or rounded
Aggregates(agg, df, col, entity, month, exact) ==
    LET ids == Group(df, col, entity, month)
        clicks == Total(df, Present(df, ids, CLICKS), CLICKS)
        impressions == Total(df, Present(df, ids, IMPRESSIONS), IMPRESSIONS)
        positions == Present(df, ids, POSITION)
    IN  /\ agg # None
        /\ agg.Clicks = Num(clicks)
        /\ agg.Impressions = Num(impressions)
        /\ IF impressions > 0
           THEN agg.CTR.t = "num" /\ Quotient(exact, agg.CTR.v, clicks * 100 * Scale, impressions)
           ELSE IsNaN(agg.CTR)
        /\ IF positions # {}
           THEN agg.Position.t = "num"
                /\ Quotient(exact, agg.Position.v, Total(df, positions, POSITION),
                            Cardinality(positions))
           ELSE IsNaN(agg.Position)

\* every group of both tables, and the two groups on screen, aggregate so
AllAggregates(exact) ==
    /\ \A table \in {"queries", "pages"} :
          LET df == load_data(TableOf(table, queries, pages))
              col == EntityColumn(table)
          IN  \A entity \in UniqueNotNa(df, col), month \in Months :
                 Group(df, col, entity, month) # {} =>
                    Aggregates(aggregate_metrics(df, col, entity, month),
                               df, col, entity, month, exact)
    /\ comp_view.kind = "table" =>
          LET table == IF comp_view.chosen.mode = "Keyword" THEN "queries" ELSE "pages"
              df == load_data(TableOf(table, queries, pages))
              col == EntityColumn(table)
          IN  /\ Aggregates(comp_view.a, df, col, comp_view.chosen.entity,
                            comp_view.chosen.m1, exact)
              /\ Aggregates(comp_view.b, df, col, comp_view.chosen.entity,
                            comp_view.chosen.m2, exact)

(***************************************************************************)
(* C3 as stated.  aggregate_metrics over the rows of one (entity name,     *)
(* month) pair returns the sum of their clicks, the sum of their           *)
(* impressions, CTR = sum(clicks) / sum(impressions) * 100 when there are  *)
(* impressions and undefined otherwise, and Position = the mean of the     *)
(* present positions and undefined when none is present.                   *)
(***************************************************************************)
C3_ExactAggregates == AllAggregates(TRUE)

(***************************************************************************)
(* C3 amended.  As above, with CTR and Position rounded to two decimals.   *)
(***************************************************************************)
C3_RoundedAggregates == AllAggregates(FALSE)

\* one row imported twice for one month: twice its clicks, a rounded CTR
C3_Witness ==
    /\ comp_view.kind = "table"
    /\ comp_view.chosen.entity = Str(SHOES)
    /\ Cardinality(Group(load_data(queries), KEYWORD, Str(SHOES), comp_view.chosen.m1)) = 2
    /\ comp_view.a.Clicks = Num(300)
    /\ ~IsQuotient(comp_view.a.CTR.v, 300 * 100 * Scale, comp_view.a.Impressions.v)

(***************************************************************************)
(* C4.  When the chosen entity has no stored row in one of the two months  *)
(* compared, aggregate_metrics returns None for that month, the run shows  *)
(* the no-data warning and builds no comparison table and no Change; a     *)
(* table is built only when both months have rows.  Keyword and page mode  *)
(* alike.                                                                  *)
(***************************************************************************)
C4_NoData ==
    comp_view.kind \in {"no_data", "table"} =>
        LET table == IF comp_view.chosen.mode = "Keyword" THEN "queries" ELSE "pages"
            df == load_data(TableOf(table, queries, pages))
            col == EntityColumn(table)
            rows1 == Group(df, col, comp_view.chosen.entity, comp_view.chosen.m1)
            rows2 == Group(df, col, comp_view.chosen.entity, comp_view.chosen.m2)
        IN  /\ (rows1 = {}) <=> (comp_view.a = None)
            /\ (rows2 = {}) <=> (comp_view.b = None)
            /\ (rows1 = {} \/ rows2 = {}) <=> (comp_view.kind = "no_data")
            /\ comp_view.kind = "no_data" => "change" \notin DOMAIN comp_view

\* page mode: the page has rows in the first month and none in the second
C4_Witness ==
    /\ comp_view.kind = "no_data"
    /\ comp_view.chosen.mode = "Page"
    /\ comp_view.a # None
    /\ comp_view.b = None

(***************************************************************************)
(* C5.  In the comparison table the Change of every metric is the second   *)
(* month's value minus the first month's value, and the Change of CTR or   *)
(* Position is undefined whenever either month's value is undefined.       *)
(***************************************************************************)
C5_Change ==
    comp_view.kind = "table" =>
        /\ comp_view.change.Clicks = Num(comp_view.b.Clicks.v - comp_view.a.Clicks.v)
        /\ comp_view.change.Impressions
              = Num(comp_view.b.Impressions.v - comp_view.a.Impressions.v)
        /\ \A metric \in {"CTR", "Position"} :
              IF comp_view.a[metric].t = "num" /\ comp_view.b[metric].t = "num"
              THEN comp_view.change[metric]
                      = Num(comp_view.b[metric].v - comp_view.a[metric].v)
              ELSE IsNaN(comp_view.change[metric])

\* clicks 100 in Jul and 150 in Aug: Change 50
C5_Witness ==
    /\ comp_view.kind = "table"
    /\ comp_view.chosen.m1 = JUL
    /\ comp_view.chosen.m2 = AUG
    /\ comp_view.a.Clicks = Num(100)
    /\ comp_view.b.Clicks = Num(150)
    /\ comp_view.change.Clicks = Num(50)

\* a Position defined in one month only: its Change is undefined
C5_UndefinedShown ==
    /\ comp_view.kind = "table"
    /\ comp_view.a.Position.t = "num"
    /\ IsNaN(comp_view.b.Position)
    /\ IsNaN(comp_view.change.Position)

(***************************************************************************)
(* Vocabulary of the import properties.                                    *)
(***************************************************************************)
UpperCase == <<"A", "C", "D", "I", "J", "K", "L", "N", "P", "Q", "R", "T", "U">>

LowerCase == <<"a", "c", "d", "i", "j", "k", "l", "n", "p", "q", "r", "t", "u">>

\* str.lower()
Lower(text) ==
    [i \in DOMAIN text |->
        IF \E k \in DOMAIN UpperCase : UpperCase[k] = text[i]
        THEN LowerCase[CHOOSE k \in DOMAIN UpperCase : UpperCase[k] = text[i]]
        ELSE text[i]]

\* the entity-name candidates, lower case
KeywordCandidates ==
    {Lower(TOP_QUERIES), <<"q", "u", "e", "r", "y">>, <<"k", "e", "y", "w", "o", "r", "d">>}

PageCandidates == {Lower(TOP_PAGES), <<"p", "a", "g", "e">>, <<"u", "r", "l">>}

\* the header names of a file, trimmed and lower-cased
FoldedHeaders(df) == {Lower(Strip(df.columns[j])) : j \in DOMAIN df.columns}

\* a number written with thousands separators and / or a trailing percent sign
IsFormatted(text) ==
    /\ \E i \in DOMAIN text : text[i] \in {",", "%"}
    /\ IsRate(SelectSeq(text, LAMBDA c : c # ","))

MetricColumns == {CLICKS, IMPRESSIONS, CTR, POSITION}

\* the stored rows the last saved import added
AddedRows(up) ==
    LET table == TableOf(up.save_data, queries, pages)
    IN  SubSeq(table, Len(table) - Len(up.df.data) + 1, Len(table))

Blank(c) == c.t # "str" \/ Strip(c.s) = <<>>

(***************************************************************************)
(* C6.  Value cleaning on import: a numeric cell written with thousands    *)
(* separators and / or a trailing percent sign, in any of Clicks,          *)
(* Impressions, CTR and Position, is stored as the number it denotes       *)
(* ("1,234" as 1234), never as 0 or as missing.                            *)
(***************************************************************************)
C6_CleanedValues ==
    Saved(uploaded, message) =>
        \A i \in DOMAIN uploaded.df.data :
            \A c \in MetricColumns \cap {Strip(h) : h \in Range(uploaded.df.columns)} :
                LET cell == CellUnder(uploaded.df, i, c)
                IN  (cell.t = "str" /\ IsFormatted(cell.s)) =>
                        AddedRows(uploaded)[i][c] =
                            IF c \in {CLICKS, IMPRESSIONS}
                            THEN Num(Reading(cell.s) \div Scale)
                            ELSE Num(Reading(cell.s))

(***************************************************************************)
(* C7.  Column recognition at import is trimmed and case-insensitive: a    *)
(* file with a header equal, after trimming and ignoring case, to an       *)
(* entity-name candidate (top queries, query, keyword; top pages, page,    *)
(* url) is taken for the matching table and not rejected.                  *)
(***************************************************************************)
C7_HeaderRecognised ==
    uploaded.kind = "csv" =>
        /\ FoldedHeaders(uploaded.df) \cap KeywordCandidates # {} =>
              uploaded.save_data = "queries"
        /\ (FoldedHeaders(uploaded.df) \cap KeywordCandidates = {}
            /\ FoldedHeaders(uploaded.df) \cap PageCandidates # {}) =>
              uploaded.save_data = "pages"

(***************************************************************************)
(* C8.  No stored metric row has an empty or missing entity name: every    *)
(* row of queries has a non-empty keyword, every row of pages a non-empty  *)
(* url, and an import adds as many rows as the file has rows with a        *)
(* non-empty entity name.                                                  *)
(***************************************************************************)
C8_NoEmptyEntity ==
    [][/\ \A i \in DOMAIN queries' : ~Blank(queries'[i][KEYWORD])
       /\ \A i \in DOMAIN pages' : ~Blank(pages'[i][URL])
       /\ Saved(uploaded', message') =>
             Len(queries') + Len(pages') - Len(queries) - Len(pages)
                = Cardinality({i \in DOMAIN uploaded'.df.data :
                                  ~Blank(uploaded'.df.data[i][1])})]_vars

C10_NewestFirst ==
    notes_view.state = "notes" =>
        LET mine == {i \in DOMAIN notes : notes[i].keyword = notes_view.keyword}
            shown == notes_view.history
        IN  /\ Range(shown) = mine
            /\ Len(shown) = Cardinality(mine)
            /\ \A i, j \in DOMAIN shown : i < j => shown[i] > shown[j]
            /\ \A i \in mine : notes_view.latest_note >= i

====
